---- MODULE Spec2Model ----
(***************************************************************************)
(* Model of the search-and-aggregation subsystem of the Fathom MCP server  *)
(* (src/tools/search.py): the normalizer, the field and transcript         *)
(* matchers, the result projector and the search_meetings coroutine with   *)
(* its pagination and transcript hydration loops.                          *)
(*                                                                         *)
(* Python values are tagged records: None, Str(text), PyInt(n), List(seq), *)
(* Dict(record).  A text is a sequence of one-character strings.  A pure   *)
(* function that raises returns Raise(exception class).                    *)
(***************************************************************************)
EXTENDS Integers, Sequences, FiniteSets, TLC

----------------------------------------------------------------------------
(* Python values *)

None == [kind |-> "none"]
Str(s) == [kind |-> "str", text |-> s]
PyInt(n) == [kind |-> "int", val |-> n]
List(es) == [kind |-> "list", entries |-> es]
Dict(d) == [kind |-> "dict", fields |-> d]
Raise(e) == [kind |-> "raise", exc |-> e]

EmptyStr == Str(<< >>)

\* bool(v) of a Python value
Truthy(v) ==
    CASE v.kind = "none" -> FALSE
      [] v.kind = "str"  -> v.text # << >>
      [] v.kind = "int"  -> v.val # 0
      [] v.kind = "list" -> v.entries # << >>
      [] v.kind = "dict" -> DOMAIN v.fields # {}
      [] OTHER -> TRUE

\* d.get(k) and d.get(k, default) of a dict
GetDefault(d, k, default) == IF k \in DOMAIN d.fields THEN d.fields[k] ELSE default
Get(d, k) == GetDefault(d, k, None)

\* v or d
OrElse(v, d) == IF Truthy(v) THEN v ELSE d

\* the sequence a "for x in (v or [])" loop walks
Elems(v) == IF Truthy(v) /\ v.kind = "list" THEN v.entries ELSE << >>

\* str(v) of a str or of None
PyStr(v) == IF v.kind = "none" THEN Str(<<"N", "o", "n", "e">>) ELSE v

\* d[k] = v
SetKey(d, k, v) ==
    Dict([x \in DOMAIN d.fields \cup {k} |-> IF x = k THEN v ELSE d.fields[x]])

ContainsNonEmpty(needle, hay) ==
    /\ needle # << >>
    /\ \E i \in 0..(Len(hay) - Len(needle)) : SubSeq(hay, i + 1, i + Len(needle)) = needle

\* needle in hay, for two texts
Contains(needle, hay) ==
    \E i \in 0..(Len(hay) - Len(needle)) : SubSeq(hay, i + 1, i + Len(needle)) = needle

\* a in b, for two str values
In(a, b) == Contains(a.text, b.text)

----------------------------------------------------------------------------
(* str methods *)

LowerChar(c) ==
    CASE c = "A" -> "a"
      [] c = "B" -> "b"
      [] c = "K" -> "k"
      [] c = "L" -> "l"
      [] c = "S" -> "s"
      [] OTHER -> c

\* text.lower()
Lower(s) == [i \in 1..Len(s) |-> LowerChar(s[i])]

\* text.replace(c, "")
Remove(s, c) == SelectSeq(s, LAMBDA x : x # c)

\* text.strip() is empty
IsBlank(s) == \A i \in 1..Len(s) : s[i] = " "

----------------------------------------------------------------------------
(* _normalize_search *)

NormalizeNoStrip(text) ==
    IF text.kind # "str" THEN Raise("AttributeError")
    ELSE Str(Remove(Remove(Remove(Lower(text.text), " "), "-"), "_"))

NormalizeNoneAsEmpty(text) ==
    LET t == IF text.kind = "str" THEN text.text ELSE << >>
        normalized == Remove(Remove(Remove(Lower(t), " "), "-"), "_")
    IN IF Len(normalized) > 2 /\ normalized[Len(normalized)] = "s"
       THEN Str(SubSeq(normalized, 1, Len(normalized) - 1))
       ELSE Str(normalized)

\* None has no method lower(): the call raises AttributeError
_normalize_search(text) ==
    IF text.kind # "str" THEN Raise("AttributeError")
    ELSE LET normalized == Remove(Remove(Remove(Lower(text.text), " "), "-"), "_")
         IN IF Len(normalized) > 2 /\ normalized[Len(normalized)] = "s"
            THEN Str(SubSeq(normalized, 1, Len(normalized) - 1))
            ELSE Str(normalized)

----------------------------------------------------------------------------
(* _meeting_matches_search: the metadata fields, in the order of the code *)

TitleMatches(meeting, search_normalized) ==
    In(search_normalized, _normalize_search(OrElse(Get(meeting, "title"), EmptyStr)))

MeetingTitleMatches(meeting, search_normalized) ==
    In(search_normalized, _normalize_search(OrElse(Get(meeting, "meeting_title"), EmptyStr)))

InviteeMatches(meeting, search_normalized) ==
    LET invitees == Elems(Get(meeting, "calendar_invitees"))
    IN \E i \in 1..Len(invitees) :
          LET name == _normalize_search(OrElse(Get(invitees[i], "name"), EmptyStr))
              email == Str(Lower(OrElse(Get(invitees[i], "email"), EmptyStr).text))
          IN In(search_normalized, name) \/ In(search_normalized, email)

\* a team or topic reference: a mapping with a name, or anything else through str()
RefName(ref) ==
    IF ref.kind = "dict" THEN _normalize_search(OrElse(Get(ref, "name"), EmptyStr))
    ELSE _normalize_search(PyStr(ref))

TeamMatches(meeting, search_normalized) ==
    LET teams == Elems(Get(meeting, "teams"))
    IN \E i \in 1..Len(teams) : In(search_normalized, RefName(teams[i]))

TopicMatches(meeting, search_normalized) ==
    LET topics == Elems(Get(meeting, "topics"))
    IN \E i \in 1..Len(topics) : In(search_normalized, RefName(topics[i]))

\* only a mapping's markdown_formatted is read; a plain-string summary leaves
\* summary_text at None
SummaryMatches(meeting, search_normalized) ==
    LET summary == Get(meeting, "default_summary")
        summary_text == IF summary.kind = "dict" THEN Get(summary, "markdown_formatted")
                        ELSE None
    IN Truthy(summary_text) /\ In(search_normalized, _normalize_search(summary_text))

_meeting_matches_search(meeting, search_normalized) ==
    IF \/ TitleMatches(meeting, search_normalized)
       \/ MeetingTitleMatches(meeting, search_normalized)
       \/ InviteeMatches(meeting, search_normalized)
       \/ TeamMatches(meeting, search_normalized)
       \/ TopicMatches(meeting, search_normalized)
       \/ SummaryMatches(meeting, search_normalized)
    THEN <<TRUE, FALSE>>
    ELSE <<FALSE, FALSE>>

----------------------------------------------------------------------------
(* _meeting_matches_search_with_transcript *)

\* the transcript scan of lines 119-130: entries that are mappings are scanned on
\* their text, a plain string is scanned whole
TranscriptMatches(meeting, search_normalized) ==
    LET transcript == Get(meeting, "transcript")
    IN /\ Truthy(transcript)
       /\ \/ /\ transcript.kind = "list"
             /\ \E i \in 1..Len(transcript.entries) :
                   /\ transcript.entries[i].kind = "dict"
                   /\ In(search_normalized,
                         _normalize_search(GetDefault(transcript.entries[i], "text", EmptyStr)))
          \/ /\ transcript.kind = "str"
             /\ In(search_normalized, _normalize_search(transcript))

WithTranscriptOnly(meeting, search_normalized) ==
    IF TranscriptMatches(meeting, search_normalized) THEN <<TRUE, TRUE>> ELSE <<FALSE, FALSE>>

WithTranscriptScanFirst(meeting, search_normalized) ==
    IF TranscriptMatches(meeting, search_normalized) THEN <<TRUE, TRUE>>
    ELSE _meeting_matches_search(meeting, search_normalized)

_meeting_matches_search_with_transcript(meeting, search_normalized) ==
    IF _meeting_matches_search(meeting, search_normalized)[1] THEN <<TRUE, FALSE>>
    ELSE IF TranscriptMatches(meeting, search_normalized) THEN <<TRUE, TRUE>>
    ELSE <<FALSE, FALSE>>

----------------------------------------------------------------------------
(* _filter_meeting_fields *)

SummaryText(meeting) ==
    LET summary == Get(meeting, "default_summary")
    IN IF summary.kind = "dict" THEN Get(summary, "markdown_formatted")
       ELSE IF summary.kind = "str" THEN summary ELSE None

ProjectedFields(meeting) ==
    [title |-> Get(meeting, "title"),
     recording_id |-> Get(meeting, "recording_id"),
     url |-> Get(meeting, "url"),
     share_url |-> Get(meeting, "share_url"),
     created_at |-> Get(meeting, "created_at"),
     scheduled_start_time |-> Get(meeting, "scheduled_start_time"),
     scheduled_end_time |-> Get(meeting, "scheduled_end_time"),
     recording_start_time |-> Get(meeting, "recording_start_time"),
     recording_end_time |-> Get(meeting, "recording_end_time"),
     transcript_language |-> Get(meeting, "transcript_language"),
     calendar_invitees |-> Get(meeting, "calendar_invitees"),
     recorded_by |-> Get(meeting, "recorded_by"),
     teams |-> Get(meeting, "teams"),
     topics |-> Get(meeting, "topics"),
     summary |-> SummaryText(meeting)]

\* result["found_in_transcript"] = True
WithFlag(result, flag) ==
    [k \in DOMAIN result \cup {"found_in_transcript"} |->
        IF k = "found_in_transcript" THEN flag ELSE result[k]]

FilterAlwaysFlag(meeting, found_in_transcript) ==
    Dict(WithFlag(ProjectedFields(meeting), found_in_transcript))

_filter_meeting_fields(meeting, found_in_transcript) ==
    IF found_in_transcript THEN Dict(WithFlag(ProjectedFields(meeting), TRUE))
    ELSE Dict(ProjectedFields(meeting))

----------------------------------------------------------------------------
(* Bounds of the model *)

\* records the upstream serves before it only repeats one fixed record
MaxRecords == 2
\* items of one page
MaxPerPage == 2
\* length of the texts handed to the normalizer alone
MaxLen == 4

\* search_meetings: max_pages
max_pages == 10

----------------------------------------------------------------------------
(* Inputs of search_meetings: queries and what the upstream API can answer *)

Labs == <<"L", "a", "b", "s">>
Kpi == <<"K", "p", "i">>
Sync == <<"S", "y", "n", "c">>
LabsKpi == <<"L", "a", "b", "s", " ", "k", "p", "i">>

Queries ==
    { Str(<< >>), Str(<<" ", " ">>), Str(Labs), Str(<<"k", "p", "i">>), Str(<<"_">>) }

\* matches "Labs" in its title; its transcript has to be fetched
mLabsTitle == Dict([title |-> Str(Labs), recording_id |-> PyInt(1)])
\* no metadata match for "Labs" or "kpi"; its transcript has to be fetched
mSync == Dict([title |-> Str(Sync), recording_id |-> PyInt(2),
               default_summary |-> Dict([markdown_formatted |-> Str(Sync)])])
\* inline transcript, a list of entries; "kpi" is in title and transcript, "Labs" in
\* the transcript only
mInlineList == Dict([title |-> Str(Kpi), recording_id |-> PyInt(3),
                     transcript |-> List(<<Str(Sync), Dict([text |-> Str(LabsKpi)])>>)])
\* inline transcript, a plain string, and no recording_id
mInlineStr == Dict([title |-> Str(Sync), transcript |-> Str(LabsKpi)])
\* matches "Labs" in a team; neither transcript nor recording_id
mNoId == Dict([title |-> Str(Sync), teams |-> List(<<Dict([name |-> Str(Labs)])>>)])

Pool == { mLabsTitle, mSync, mInlineList, mInlineStr, mNoId }

\* sequences over S of length lo..hi
SeqsOf(S, lo, hi) == UNION { [1..n -> S] : n \in lo..hi }

ErrorKinds == { "FathomAPIError", "JSONDecodeError" }

\* the token the upstream hands out with page p, naming page p + 1
Digit(n) == <<"0", "1", "2", "3", "4", "5", "6", "7", "8", "9">>[(n % 10) + 1]
CursorAfter(p) == Str(<<"c", Digit(p \div 10), Digit(p)>>)

\* the cursor of the response to the call for page p: absent/null, empty, or a token
Cursors(p) == { None, EmptyStr, CursorAfter(p) }

\* what client.get_meetings can answer to the call for page p once all_meetings
\* holds `fetched` records: an error, or a page; once MaxRecords records are out,
\* every further page holds the one record mNoId and names a next page
MeetingsResponses(p, fetched) ==
    { Raise(e) : e \in ErrorKinds }
      \cup (IF fetched < MaxRecords
            THEN { Dict([items |-> List(items), cursor |-> c]) :
                     items \in { x \in SeqsOf(Pool, 0, MaxPerPage) :
                                   fetched + Len(x) <= MaxRecords },
                     c \in Cursors(p) }
                   \cup { Dict([cursor |-> CursorAfter(p)]) }
            ELSE { Dict([items |-> List(<<mNoId>>), cursor |-> CursorAfter(p)]) })

\* what client.get_transcript can answer
TranscriptResponses ==
    { Raise("FathomAPIError"),
      Dict([transcript |-> List(<<Dict([text |-> Str(LabsKpi)])>>)]),
      Dict([recording_id |-> PyInt(0)]) }

----------------------------------------------------------------------------
(* State *)

VARIABLES
    pc,                 \* where the search_meetings coroutine stands
    query,              \* argument
    include_transcript, \* argument
    search_normalized,  \* local
    all_meetings,       \* local: the accumulated records
    cursor,             \* local
    page,               \* local
    hydrate_i,          \* local: position of the hydration loop in all_meetings
    matched_meetings,   \* local: <<position in all_meetings, found_in_transcript>>
    result,             \* the returned value, NoResult until it returns
    exc,                \* the exception raised to the caller, "none" until it raises
    meetings_calls,     \* number of client.get_meetings calls issued
    last_params,        \* params of the last client.get_meetings call
    collected,          \* all_meetings as it stood when pagination ended
    transcript_calls,   \* positions for which client.get_transcript was called, in order
    transcript_failed,  \* positions for which client.get_transcript raised
    listing_error,      \* the exception client.get_meetings raised, "none" if it did not
    last_response,      \* what the last client.get_meetings call answered, None before it
    frames,             \* concurrent invocations: the locals of each but its list
    lists,              \* concurrent invocations: the list objects bound to all_meetings
    received,           \* concurrent invocations: the answers each has been given
    call                \* a pure function applied on its own: its arguments and results

svars == <<pc, query, include_transcript, search_normalized, all_meetings, cursor, page,
           hydrate_i, matched_meetings, result, exc, meetings_calls, last_params,
           collected, transcript_calls, transcript_failed, listing_error, last_response,
           frames, lists, received>>

vars == <<svars, call>>

NoResult == [kind |-> "noresult"]
NoCall == [fn |-> "none"]

\* no concurrent invocations are under way
NoInvocations == frames = << >> /\ lists = << >> /\ received = << >>

----------------------------------------------------------------------------
(* search_meetings *)

Init ==
    /\ pc = "start"
    /\ query \in Queries
    /\ include_transcript \in BOOLEAN
    /\ search_normalized = None
    /\ all_meetings = << >>
    /\ cursor = None
    /\ page = 1
    /\ hydrate_i = 1
    /\ matched_meetings = << >>
    /\ result = NoResult
    /\ exc = "none"
    /\ meetings_calls = 0
    /\ last_params = None
    /\ collected = << >>
    /\ transcript_calls = << >>
    /\ transcript_failed = {}
    /\ listing_error = "none"
    /\ last_response = None
    /\ NoInvocations
    /\ call = NoCall

EmptyOnly(q) == ~Truthy(q)

\* not query or not query.strip()
BlankQuery(q) == ~Truthy(q) \/ IsBlank(q.text)

\* the value returned for a blank query
BlankResult(q) == Dict([items |-> List(<< >>), query |-> q, total_matches |-> PyInt(0)])

\* lines 161-179: validation, normalization of the query, the locals of the loop
Validate ==
    /\ pc = "start"
    /\ IF BlankQuery(query)
       THEN /\ result' = BlankResult(query)
            /\ pc' = "returned"
            /\ UNCHANGED search_normalized
       ELSE /\ search_normalized' = _normalize_search(query)
            /\ pc' = "fetch"
            /\ UNCHANGED result
    /\ UNCHANGED <<query, include_transcript, all_meetings, cursor, page, hydrate_i,
                   matched_meetings, exc, meetings_calls, last_params, collected,
                   transcript_calls, transcript_failed, listing_error, last_response,
                   frames, lists, received, call>>

WhileOneMore(p) == p <= max_pages + 1

\* while page <= max_pages
WhileCondition(p) == p <= max_pages

ParamsNoCursor(c) == Dict([include_summary |-> TRUE])

\* params of one client.get_meetings call
Params(c) ==
    IF Truthy(c) THEN Dict([include_summary |-> TRUE, cursor |-> c])
    ELSE Dict([include_summary |-> TRUE])

SwallowError(e) == [pc |-> IF include_transcript THEN "hydrate" ELSE "match", exc |-> "none"]

\* except FathomAPIError / except Exception: both handlers end in raise e
ExceptHandler(e) == [pc |-> "raised", exc |-> e]

NeverEmpty(items) == FALSE

\* if not items: break
PageIsEmpty(items) == ~Truthy(items)

\* where the coroutine goes when the while loop is left
AfterLoop == IF include_transcript THEN "hydrate" ELSE "match"

\* one turn of the while loop around the await of client.get_meetings
GetMeetings ==
    /\ pc = "fetch"
    /\ WhileCondition(page)
    /\ \E response \in MeetingsResponses(page, Len(all_meetings)) :
         /\ meetings_calls' = meetings_calls + 1
         /\ last_params' = Params(cursor)
         /\ last_response' = response
         /\ IF response.kind = "raise"
            THEN /\ listing_error' = response.exc
                 /\ pc' = ExceptHandler(response.exc).pc
                 /\ exc' = ExceptHandler(response.exc).exc
                 /\ collected' = IF pc' = "raised" THEN collected ELSE all_meetings
                 /\ UNCHANGED <<all_meetings, cursor, page>>
            ELSE /\ UNCHANGED <<exc, listing_error>>
                 /\ LET items == GetDefault(response, "items", List(<< >>))
                        next == Get(response, "cursor")
                    IN IF PageIsEmpty(items)
                       THEN /\ pc' = AfterLoop
                            /\ collected' = all_meetings
                            /\ UNCHANGED <<all_meetings, cursor, page>>
                       ELSE /\ all_meetings' = all_meetings \o items.entries
                            /\ cursor' = next
                            /\ IF ~Truthy(next)
                               THEN /\ pc' = AfterLoop
                                    /\ collected' = all_meetings'
                                    /\ UNCHANGED page
                               ELSE /\ page' = page + 1
                                    /\ IF WhileCondition(page')
                                       THEN pc' = "fetch" /\ UNCHANGED collected
                                       ELSE pc' = AfterLoop /\ collected' = all_meetings'
    /\ UNCHANGED <<query, include_transcript, search_normalized, hydrate_i,
                   matched_meetings, result, transcript_calls, transcript_failed,
                   frames, lists, received, call>>

NeedsTranscriptAlways(meeting) == Truthy(Get(meeting, "recording_id"))

\* if not meeting.get("transcript"): recording_id = ...; if recording_id:
NeedsTranscript(meeting) ==
    ~Truthy(Get(meeting, "transcript")) /\ Truthy(Get(meeting, "recording_id"))

\* the first position from i on whose record the hydration loop fetches for, or
\* Len(meetings) + 1 if it fetches for none
RECURSIVE NextToHydrate(_, _)
NextToHydrate(meetings, i) ==
    IF i > Len(meetings) THEN i
    ELSE IF NeedsTranscript(meetings[i]) THEN i
    ELSE NextToHydrate(meetings, i + 1)

PropagateTranscriptError(e) == [pc |-> "raised", exc |-> e]

\* except Exception as e: await ctx.info(...) - logged, the loop goes on
TranscriptExceptHandler(e) == [pc |-> "hydrate", exc |-> "none"]

\* the hydration loop up to and including its next await of client.get_transcript
GetTranscript ==
    /\ pc = "hydrate"
    /\ LET i == NextToHydrate(all_meetings, hydrate_i)
       IN /\ i <= Len(all_meetings)
          /\ \E response \in TranscriptResponses :
               /\ transcript_calls' = Append(transcript_calls, i)
               /\ hydrate_i' = i + 1
               /\ IF response.kind = "raise"
                  THEN /\ transcript_failed' = transcript_failed \cup {i}
                       /\ pc' = TranscriptExceptHandler(response.exc).pc
                       /\ exc' = TranscriptExceptHandler(response.exc).exc
                       /\ UNCHANGED all_meetings
                  ELSE /\ all_meetings' =
                            [all_meetings EXCEPT ![i] = SetKey(@, "transcript",
                                                               Get(response, "transcript"))]
                       /\ UNCHANGED <<pc, exc, transcript_failed>>
    /\ UNCHANGED <<query, include_transcript, search_normalized, cursor, page,
                   matched_meetings, result, meetings_calls, last_params, collected,
                   listing_error, last_response,
                   frames, lists, received, call>>

\* the hydration loop runs off the end of all_meetings
HydrationDone ==
    /\ pc = "hydrate"
    /\ NextToHydrate(all_meetings, hydrate_i) > Len(all_meetings)
    /\ hydrate_i' = Len(all_meetings) + 1
    /\ pc' = "match"
    /\ UNCHANGED <<query, include_transcript, search_normalized, all_meetings, cursor,
                   page, matched_meetings, result, exc, meetings_calls, last_params,
                   collected, transcript_calls, transcript_failed, listing_error, last_response,
                   frames, lists, received, call>>

RECURSIVE MatchedFromAlwaysTranscript(_, _, _, _)
MatchedFromAlwaysTranscript(meetings, q, with_transcript, i) ==
    IF i > Len(meetings) THEN << >>
    ELSE LET m == _meeting_matches_search_with_transcript(meetings[i], q)
         IN (IF m[1] THEN <<(<<i, m[2]>>)>> ELSE << >>)
              \o MatchedFromAlwaysTranscript(meetings, q, with_transcript, i + 1)

\* lines 221-232: the matched (position, found_in_transcript) pairs from position i on
RECURSIVE MatchedFrom(_, _, _, _)
MatchedFrom(meetings, q, with_transcript, i) ==
    IF i > Len(meetings) THEN << >>
    ELSE LET m == IF with_transcript
                  THEN _meeting_matches_search_with_transcript(meetings[i], q)
                  ELSE <<_meeting_matches_search(meetings[i], q)[1], FALSE>>
         IN (IF m[1] THEN <<(<<i, m[2]>>)>> ELSE << >>)
              \o MatchedFrom(meetings, q, with_transcript, i + 1)

FilteredNewestFirst(meetings, matched) ==
    [k \in 1..Len(matched) |->
       _filter_meeting_fields(meetings[matched[Len(matched) + 1 - k][1]],
                              matched[Len(matched) + 1 - k][2])]

\* lines 235-238
FilteredMeetings(meetings, matched) ==
    [k \in 1..Len(matched) |-> _filter_meeting_fields(meetings[matched[k][1]], matched[k][2])]

\* lines 244-249
SearchResult(q, filtered, matched, searched) ==
    Dict([items |-> List(filtered), query |-> q, total_matches |-> PyInt(Len(matched)),
          searched_transcripts |-> searched])

\* lines 220-249: filter, project and return; nothing is awaited but the log calls
MatchAndRespond ==
    /\ pc = "match"
    /\ matched_meetings' = MatchedFrom(all_meetings, search_normalized, include_transcript, 1)
    /\ result' = SearchResult(query, FilteredMeetings(all_meetings, matched_meetings'),
                              matched_meetings', include_transcript)
    /\ pc' = "returned"
    /\ UNCHANGED <<query, include_transcript, search_normalized, all_meetings, cursor,
                   page, hydrate_i, exc, meetings_calls, last_params, collected,
                   transcript_calls, transcript_failed, listing_error, last_response,
                   frames, lists, received, call>>

Next ==
    \/ Validate
    \/ GetMeetings
    \/ GetTranscript
    \/ HydrationDone
    \/ MatchAndRespond

Spec == Init /\ [][Next]_vars

----------------------------------------------------------------------------
(* The search_meetings tool registered in server.py, next to a direct call of  *)
(* tools.search.search_meetings.  call.wants_transcript is what the caller     *)
(* asks for: a transcript search or not.                                       *)

\* a search is asked for through the registered tool or from the core directly
Entries == { "tool", "core" }

InitTool ==
    /\ query \in Queries
    /\ \E entry \in Entries, wants \in BOOLEAN :
          /\ call = [fn |-> entry, wants_transcript |-> wants]
          /\ pc = IF entry = "tool" THEN "tool" ELSE "start"
          /\ include_transcript = IF entry = "tool" THEN FALSE ELSE wants
    /\ search_normalized = None
    /\ all_meetings = << >>
    /\ cursor = None
    /\ page = 1
    /\ hydrate_i = 1
    /\ matched_meetings = << >>
    /\ result = NoResult
    /\ exc = "none"
    /\ meetings_calls = 0
    /\ last_params = None
    /\ collected = << >>
    /\ transcript_calls = << >>
    /\ transcript_failed = {}
    /\ listing_error = "none"
    /\ last_response = None
    /\ NoInvocations

ToolForwardsFlag(wants) == wants

\* the tool has the parameters ctx and query only and calls
\* tools.search.search_meetings(ctx, query): include_transcript takes its default
ToolForward(wants) == FALSE

\* server.search_meetings: return await tools.search.search_meetings(ctx, query)
ToolSearchMeetings ==
    /\ pc = "tool"
    /\ call.fn = "tool"
    /\ include_transcript' = ToolForward(call.wants_transcript)
    /\ pc' = "start"
    /\ UNCHANGED <<query, search_normalized, all_meetings, cursor, page, hydrate_i,
                   matched_meetings, result, exc, meetings_calls, last_params, collected,
                   transcript_calls, transcript_failed, listing_error, last_response,
                   frames, lists, received, call>>

NextTool ==
    \/ ToolSearchMeetings
    \/ Next

SpecTool == InitTool /\ [][NextTool]_vars

----------------------------------------------------------------------------
(* The pure functions applied on their own.  The coroutine does not run: its  *)
(* variables keep the values of Idle.                                         *)

Idle ==
    /\ pc = "idle"
    /\ query = EmptyStr
    /\ include_transcript = FALSE
    /\ search_normalized = None
    /\ all_meetings = << >>
    /\ cursor = None
    /\ page = 1
    /\ hydrate_i = 1
    /\ matched_meetings = << >>
    /\ result = NoResult
    /\ exc = "none"
    /\ meetings_calls = 0
    /\ last_params = None
    /\ collected = << >>
    /\ transcript_calls = << >>
    /\ transcript_failed = {}
    /\ listing_error = "none"
    /\ last_response = None

NotCalled == [kind |-> "notcalled"]

\* the characters of the texts handed to the normalizer
NormChars == { "a", "s", "S", " ", "-", "_" }

NormInputs == { Str(t) : t \in SeqsOf(NormChars, 0, MaxLen) } \cup { None }

InitNormalize ==
    /\ Idle
    /\ NoInvocations
    /\ call \in { [fn |-> "_normalize_search", text |-> t, once |-> NotCalled,
                   twice |-> NotCalled] : t \in NormInputs }

\* _normalize_search(text)
NormalizeOnce ==
    /\ call.fn = "_normalize_search"
    /\ call.once = NotCalled
    /\ call' = [call EXCEPT !.once = _normalize_search(call.text)]
    /\ UNCHANGED svars

\* _normalize_search(_normalize_search(text)), when the first call returned
NormalizeTwice ==
    /\ call.fn = "_normalize_search"
    /\ call.once.kind = "str"
    /\ call.twice = NotCalled
    /\ call' = [call EXCEPT !.twice = _normalize_search(call.once)]
    /\ UNCHANGED svars

NextNormalize == NormalizeOnce \/ NormalizeTwice

SpecNormalize == InitNormalize /\ [][NextNormalize]_vars

----------------------------------------------------------------------------
(* The matchers and the projector applied to one record and one query *)

Absent == [kind |-> "absent"]

\* the mapping with the keys of r whose value is not Absent
MakeDict(r) == Dict([k \in { x \in DOMAIN r : r[x] # Absent } |-> r[k]])

AlEmail == <<"A", "-", "B", "@", "c">>

MatchMeetings ==
    { MakeDict([title |-> t, meeting_title |-> mt, calendar_invitees |-> ci, teams |-> te,
                topics |-> tp, default_summary |-> ds, transcript |-> tr]) :
        t \in { Absent, None, Str(Labs) },
        mt \in { Absent, Str(Kpi) },
        ci \in { Absent, List(<<Dict([name |-> Str(<<"A", "l", " ", "S">>),
                                      email |-> Str(AlEmail)])>>) },
        te \in { Absent, List(<<Dict([name |-> Str(Labs)])>>), List(<<Str(Labs)>>) },
        tp \in { Absent, List(<<Dict([name |-> None]), Str(Kpi)>>) },
        ds \in { Absent, Dict([markdown_formatted |-> Str(Labs)]), Str(Labs),
                 Dict([markdown_formatted |-> None]) },
        tr \in { Absent, List(<<Str(Labs), Dict([text |-> Str(LabsKpi)])>>), Str(LabsKpi) } }

MatchQueries ==
    { Str(Labs), Str(<<"k", "p", "i">>), Str(<<"a", "-", "b", "@", "c">>), Str(<<"_">>),
      Str(<<"a", "l", "s">>), Str(<<"z">>) }

InitMatch ==
    /\ Idle
    /\ NoInvocations
    /\ call \in { [fn |-> "match", meeting |-> m, query |-> q,
                   search_normalized |-> _normalize_search(q),
                   metadata |-> NotCalled, with_transcript |-> NotCalled,
                   item |-> NotCalled] : m \in MatchMeetings, q \in MatchQueries }

\* _meeting_matches_search(meeting, search_normalized)
ApplyMatchesSearch ==
    /\ call.fn = "match"
    /\ call.metadata = NotCalled
    /\ call' = [call EXCEPT
                  !.metadata = _meeting_matches_search(call.meeting, call.search_normalized)]
    /\ UNCHANGED svars

\* _meeting_matches_search_with_transcript(meeting, search_normalized)
ApplyMatchesWithTranscript ==
    /\ call.fn = "match"
    /\ call.with_transcript = NotCalled
    /\ call' = [call EXCEPT
                  !.with_transcript =
                     _meeting_matches_search_with_transcript(call.meeting,
                                                             call.search_normalized)]
    /\ UNCHANGED svars

\* _filter_meeting_fields(meeting, found_in_transcript) of a matched record
ApplyFilter ==
    /\ call.fn = "match"
    /\ call.with_transcript # NotCalled
    /\ call.with_transcript[1]
    /\ call.item = NotCalled
    /\ call' = [call EXCEPT
                  !.item = _filter_meeting_fields(call.meeting, call.with_transcript[2])]
    /\ UNCHANGED svars

NextMatch == ApplyMatchesSearch \/ ApplyMatchesWithTranscript \/ ApplyFilter

SpecMatch == InitMatch /\ [][NextMatch]_vars

----------------------------------------------------------------------------
(* Several search_meetings invocations on one event loop.  Each invocation is  *)
(* a coroutine frame with its own locals; the frames interleave at the awaits  *)
(* of client.get_meetings and client.get_transcript.  The module-level client  *)
(* holds no state the search writes.                                           *)

MaxInvocations == 2

Invocations == 1..MaxInvocations

\* the queries and the answers of the upstream in the concurrent runs
ConcQueries == { Str(Labs), EmptyStr }

ConcMeetingsResponses(p) ==
    IF p = 1
    THEN { Raise("FathomAPIError"),
           Dict([items |-> List(<<mLabsTitle>>), cursor |-> CursorAfter(1)]),
           Dict([items |-> List(<<mInlineList>>), cursor |-> None]) }
    ELSE { Dict([items |-> List(<<mSync>>), cursor |-> None]),
           Dict([items |-> List(<< >>), cursor |-> CursorAfter(p)]) }

ConcTranscriptResponses ==
    { Raise("FathomAPIError"),
      Dict([transcript |-> List(<<Dict([text |-> Str(LabsKpi)])>>)]) }

\* the locals of a frame on entry
Frame(q, include) ==
    [pc |-> "start", query |-> q, include_transcript |-> include,
     search_normalized |-> None, all_meetings |-> << >>, cursor |-> None, page |-> 1,
     hydrate_i |-> 1, matched_meetings |-> << >>, result |-> NoResult, exc |-> "none"]

\* lines 161-179 on a frame
FrameValidate(f) ==
    IF BlankQuery(f.query)
    THEN [f EXCEPT !.result = BlankResult(f.query), !.pc = "returned"]
    ELSE [f EXCEPT !.search_normalized = _normalize_search(f.query),
                   !.all_meetings = << >>, !.cursor = None, !.page = 1, !.pc = "fetch"]

FrameAfterLoop(f) == IF f.include_transcript THEN "hydrate" ELSE "match"

\* one turn of the while loop on a frame, given the answer of client.get_meetings
FrameGetMeetings(f, response) ==
    IF response.kind = "raise"
    THEN [f EXCEPT !.pc = ExceptHandler(response.exc).pc,
                   !.exc = ExceptHandler(response.exc).exc]
    ELSE LET items == GetDefault(response, "items", List(<< >>))
             next == Get(response, "cursor")
         IN IF PageIsEmpty(items) THEN [f EXCEPT !.pc = FrameAfterLoop(f)]
            ELSE LET g == [f EXCEPT !.all_meetings = @ \o items.entries, !.cursor = next]
                 IN IF ~Truthy(next) THEN [g EXCEPT !.pc = FrameAfterLoop(f)]
                    ELSE IF WhileCondition(g.page + 1) THEN [g EXCEPT !.page = @ + 1]
                    ELSE [g EXCEPT !.page = @ + 1, !.pc = FrameAfterLoop(f)]

\* the hydration loop on a frame up to its next await, given the answer of
\* client.get_transcript
FrameGetTranscript(f, response) ==
    LET i == NextToHydrate(f.all_meetings, f.hydrate_i)
    IN IF response.kind = "raise"
       THEN [f EXCEPT !.hydrate_i = i + 1,
                      !.pc = TranscriptExceptHandler(response.exc).pc,
                      !.exc = TranscriptExceptHandler(response.exc).exc]
       ELSE [f EXCEPT !.hydrate_i = i + 1,
                      !.all_meetings[i] = SetKey(@, "transcript",
                                                 Get(response, "transcript"))]

\* the frame has a record left to fetch a transcript for
FrameAwaitsTranscript(f) ==
    NextToHydrate(f.all_meetings, f.hydrate_i) <= Len(f.all_meetings)

FrameHydrationDone(f) ==
    [f EXCEPT !.hydrate_i = Len(f.all_meetings) + 1, !.pc = "match"]

\* lines 220-249 on a frame
FrameMatchAndRespond(f) ==
    LET matched == MatchedFrom(f.all_meetings, f.search_normalized,
                               f.include_transcript, 1)
    IN [f EXCEPT !.matched_meetings = matched,
                 !.result = SearchResult(f.query, FilteredMeetings(f.all_meetings, matched),
                                         matched, f.include_transcript),
                 !.pc = "returned"]

SharedList(i) == 1

\* the list object an invocation's all_meetings names: all_meetings = [] makes a
\* new list in each invocation
ListOwner(i) == i

\* the locals of invocation i, all_meetings read through its list object
Load(i) == [frames[i] EXCEPT !.all_meetings = lists[ListOwner(i)]]

\* invocation i goes on with the locals f
Store(i, f) ==
    /\ frames' = [frames EXCEPT ![i] = [f EXCEPT !.all_meetings = << >>]]
    /\ lists' = [lists EXCEPT ![ListOwner(i)] = f.all_meetings]

InitConc ==
    /\ Idle
    /\ call = NoCall
    /\ frames \in [Invocations -> { Frame(q, include) : q \in ConcQueries,
                                                         include \in BOOLEAN }]
    /\ lists = [i \in Invocations |-> << >>]
    /\ received = [i \in Invocations |-> << >>]

ConcValidate(i) ==
    /\ frames[i].pc = "start"
    /\ Store(i, FrameValidate(Load(i)))
    /\ UNCHANGED <<received, call>>

ConcGetMeetings(i) ==
    /\ frames[i].pc = "fetch"
    /\ WhileCondition(frames[i].page)
    /\ \E response \in ConcMeetingsResponses(frames[i].page) :
          /\ Store(i, FrameGetMeetings(Load(i), response))
          /\ received' = [received EXCEPT ![i] = Append(@, response)]
    /\ UNCHANGED call

ConcGetTranscript(i) ==
    /\ frames[i].pc = "hydrate"
    /\ FrameAwaitsTranscript(Load(i))
    /\ \E response \in ConcTranscriptResponses :
          /\ Store(i, FrameGetTranscript(Load(i), response))
          /\ received' = [received EXCEPT ![i] = Append(@, response)]
    /\ UNCHANGED call

ConcHydrationDone(i) ==
    /\ frames[i].pc = "hydrate"
    /\ ~FrameAwaitsTranscript(Load(i))
    /\ Store(i, FrameHydrationDone(Load(i)))
    /\ UNCHANGED <<received, call>>

ConcMatchAndRespond(i) ==
    /\ frames[i].pc = "match"
    /\ Store(i, FrameMatchAndRespond(Load(i)))
    /\ UNCHANGED <<received, call>>

Coroutine == <<pc, query, include_transcript, search_normalized, all_meetings, cursor,
               page, hydrate_i, matched_meetings, result, exc, meetings_calls,
               last_params, collected, transcript_calls, transcript_failed,
               listing_error, last_response>>

NextConc ==
    /\ UNCHANGED Coroutine
    /\ \E i \in Invocations :
          \/ ConcValidate(i)
          \/ ConcGetMeetings(i)
          \/ ConcGetTranscript(i)
          \/ ConcHydrationDone(i)
          \/ ConcMatchAndRespond(i)

SpecConc == InitConc /\ [][NextConc]_vars

----------------------------------------------------------------------------
(* Vocabulary of the properties *)

Range(f) == { f[i] : i \in DOMAIN f }

\* the record matches the query in one of the metadata fields the field matcher reads
MetadataFieldMatch(meeting, q) ==
    \/ TitleMatches(meeting, q)
    \/ MeetingTitleMatches(meeting, q)
    \/ InviteeMatches(meeting, q)
    \/ TeamMatches(meeting, q)
    \/ TopicMatches(meeting, q)
    \/ SummaryMatches(meeting, q)

\* the query is empty or only whitespace
OnlyWhitespace(q) == Remove(q.text, " ") = << >>

Items == result.fields.items.entries

HasFlag(item) == "found_in_transcript" \in DOMAIN item.fields

\* item k of the returned value is the projection of the record at position i
ItemOf(k, i) ==
    /\ k \in 1..Len(Items)
    /\ k \in 1..Len(matched_meetings)
    /\ matched_meetings[k][1] = i
    /\ \A key \in DOMAIN ProjectedFields(all_meetings[i]) :
          Items[k].fields[key] = ProjectedFields(all_meetings[i])[key]

\* the record at position i of all_meetings is among the returned items
ReturnedAt(i) == \E k \in 1..Len(Items) : ItemOf(k, i)

Returned == pc = "returned"

----------------------------------------------------------------------------
(* Properties *)

\* C1: one search_meetings invocation never issues more than 10 client.get_meetings
\* calls, however many responses carry items and a next cursor.
C1_PageFetchesAtMostTen == meetings_calls <= 10

\* C1 witness: the tenth page came with items and a next cursor, and the loop ended.
C1_Witness ==
    /\ meetings_calls = 10
    /\ pc \in {"hydrate", "match", "returned"}
    /\ Len(all_meetings) >= 10
    /\ Truthy(cursor)

\* C2: once client.get_meetings has raised, the coroutine has raised the same
\* exception to its caller, has returned nothing, has issued no transcript fetch,
\* has not called get_meetings again (the failing call is call number `page`), and
\* takes no further step.
C2_ListingErrorPropagates ==
    listing_error # "none" =>
        /\ pc = "raised"
        /\ exc = listing_error
        /\ result = NoResult
        /\ transcript_calls = << >>
        /\ meetings_calls = page
        /\ ~ENABLED Next

\* C2 witness: page 2 failed after page 1 had delivered records.
C2_Witness ==
    /\ listing_error # "none"
    /\ meetings_calls = 2
    /\ Len(all_meetings) > 0
    /\ pc = "raised"

\* C3: with include_transcript, a client.get_transcript call that raises does not
\* make search_meetings raise; every record that lacked a transcript and has a
\* recording_id is still fetched for; the failed record keeps no transcript and is
\* returned exactly when its metadata matches; every other record that matches in
\* metadata or transcript is returned.
C3_HydrationFailureTolerated ==
    transcript_failed # {} =>
        /\ include_transcript
        /\ exc = "none"
        /\ pc \in {"hydrate", "match", "returned"}
        /\ \A i \in transcript_failed :
              /\ ~Truthy(Get(all_meetings[i], "transcript"))
              /\ all_meetings[i] = collected[i]
        /\ pc \in {"match", "returned"} =>
              Range(transcript_calls) =
                 { i \in 1..Len(collected) : NeedsTranscript(collected[i]) }
        /\ Returned =>
              \A i \in 1..Len(all_meetings) :
                 LET meta == MetadataFieldMatch(all_meetings[i], search_normalized)
                     tr == TranscriptMatches(all_meetings[i], search_normalized)
                 IN IF i \in transcript_failed
                    THEN ReturnedAt(i) <=> meta
                    ELSE (meta \/ tr) => ReturnedAt(i)

\* C3 witness: a fetch failed, a later record was hydrated and is returned as a
\* transcript match, and an earlier or later record is returned on its metadata.
C3_Witness ==
    /\ Returned
    /\ \E i \in transcript_failed :
          /\ \E j \in (i + 1)..Len(all_meetings) :
                /\ j \in Range(transcript_calls) \ transcript_failed
                /\ \E k \in 1..Len(Items) : ItemOf(k, j) /\ HasFlag(Items[k])
          /\ ReturnedAt(i)

\* C4: for an empty or whitespace-only query search_meetings returns items = [],
\* query = the original query, total_matches = 0, raises nothing and calls neither
\* client.get_meetings nor client.get_transcript.
C4_BlankQueryReturnsEmpty ==
    (pc # "start" /\ OnlyWhitespace(query)) =>
        /\ pc = "returned"
        /\ exc = "none"
        /\ result.fields.items = List(<< >>)
        /\ result.fields.query = query
        /\ result.fields.total_matches = PyInt(0)
        /\ meetings_calls = 0
        /\ transcript_calls = << >>

\* C4 witness: a query of spaces has been answered.
C4_Witness == Returned /\ query = Str(<<" ", " ">>)

\* C5: every returned value has the four keys items, query, total_matches and
\* searched_transcripts, total_matches = len(items), and searched_transcripts =
\* include_transcript.
C5_ResultHasFourKeys ==
    Returned =>
        /\ DOMAIN result.fields = {"items", "query", "total_matches", "searched_transcripts"}
        /\ result.fields.total_matches = PyInt(Len(Items))
        /\ result.fields.searched_transcripts = include_transcript

C7_TranscriptOnlyMatch ==
    (Returned /\ ~OnlyWhitespace(query)) =>
        \A i \in 1..Len(all_meetings) :
           (/\ ~MetadataFieldMatch(all_meetings[i], search_normalized)
            /\ TranscriptMatches(all_meetings[i], search_normalized)) =>
               IF include_transcript
               THEN \E k \in 1..Len(Items) :
                       /\ ItemOf(k, i)
                       /\ HasFlag(Items[k])
                       /\ Items[k].fields.found_in_transcript = TRUE
               ELSE /\ Len(Items) = Len(matched_meetings)
                    /\ \A k \in 1..Len(matched_meetings) : matched_meetings[k][1] # i

\* C7 witness: a record with an inline transcript, matching only there, is returned
\* with the flag.
C7_Witness ==
    /\ Returned
    /\ include_transcript
    /\ \E i \in 1..Len(all_meetings) :
          /\ Truthy(Get(collected[i], "transcript"))
          /\ ~MetadataFieldMatch(all_meetings[i], search_normalized)
          /\ TranscriptMatches(all_meetings[i], search_normalized)
          /\ \E k \in 1..Len(Items) : ItemOf(k, i) /\ HasFlag(Items[k])

\* C8: in every returned item, and in every output of _filter_meeting_fields, the
\* key found_in_transcript is absent or True; without include_transcript it is
\* absent from every item.
C8_FlagAbsentOrTrue ==
    /\ Returned =>
          \A k \in 1..Len(Items) :
             HasFlag(Items[k]) =>
                Items[k].fields.found_in_transcript = TRUE /\ include_transcript
    /\ pc = "start" =>
          \A m \in Pool, f \in BOOLEAN :
             LET item == _filter_meeting_fields(m, f)
             IN HasFlag(item) => item.fields.found_in_transcript = TRUE

\* C8 witness: a returned value holds an item with the flag and one without it.
C8_Witness ==
    /\ Returned
    /\ \E k \in 1..Len(Items) : HasFlag(Items[k])
    /\ \E k \in 1..Len(Items) : ~HasFlag(Items[k])

\* the text ends in "s" and is longer than 2
StillPlural(t) == Len(t) > 2 /\ t[Len(t)] = "s"

\* C9 as stated: _normalize_search(_normalize_search(x)) = _normalize_search(x).
C9_NormalizeIdempotent ==
    (call.fn = "_normalize_search" /\ call.twice # NotCalled) => call.twice = call.once

\* C9 amended: a second application returns the first result unchanged unless that
\* result still ends in "s" and is longer than 2, and then it drops one more "s".
C9_NormalizeTwiceDropsOneMore ==
    (call.fn = "_normalize_search" /\ call.twice # NotCalled) =>
        call.twice = IF StillPlural(call.once.text)
                     THEN Str(SubSeq(call.once.text, 1, Len(call.once.text) - 1))
                     ELSE call.once

\* C9 witness: a text whose normalized form still ends in "s" was normalized twice.
C9_Witness ==
    /\ call.fn = "_normalize_search"
    /\ call.twice # NotCalled
    /\ StillPlural(call.once.text)

\* C10 as stated: _normalize_search never raises, and returns "" for None and "".
C10_NormalizeTotal ==
    (call.fn = "_normalize_search" /\ call.once # NotCalled) =>
        /\ call.once.kind = "str"
        /\ call.text \in {None, EmptyStr} => call.once = EmptyStr

\* C10 amended: _normalize_search returns a string for every string, "" for the
\* empty string, and raises AttributeError for None.
C10_NormalizeTotalOnStrings ==
    (call.fn = "_normalize_search" /\ call.once # NotCalled) =>
        /\ call.text.kind = "str" => call.once.kind = "str"
        /\ call.text = EmptyStr => call.once = EmptyStr
        /\ call.text = None => call.once = Raise("AttributeError")

\* C10 witness: None was handed to _normalize_search.
C10_Witness ==
    /\ call.fn = "_normalize_search"
    /\ call.text = None
    /\ call.once # NotCalled

\* the record has an invitee whose email equals the query up to letter case
HasInviteeEmail(meeting, q) ==
    LET invitees == Elems(Get(meeting, "calendar_invitees"))
    IN \E i \in 1..Len(invitees) :
          /\ Truthy(Get(invitees[i], "email"))
          /\ Lower(Get(invitees[i], "email").text) = Lower(q.text)

\* C11: a record with an invitee whose email equals the query up to letter case
\* matches the search for that query, whatever spaces, hyphens or underscores the
\* address holds.
C11_EmailMatchesItself ==
    (/\ call.fn = "match"
     /\ call.metadata # NotCalled
     /\ HasInviteeEmail(call.meeting, call.query)) =>
        call.metadata[1] = TRUE

\* the summary text of either shape contains the normalized query
SummaryTextContains(meeting, q) ==
    /\ Truthy(SummaryText(meeting))
    /\ In(q, _normalize_search(SummaryText(meeting)))

\* C18: _meeting_matches_search matches a record whose summary contains the
\* normalized query, be default_summary a mapping with markdown_formatted or a
\* plain string.
C18_SummaryMatchesBothShapes ==
    (/\ call.fn = "match"
     /\ call.metadata # NotCalled
     /\ SummaryTextContains(call.meeting, call.search_normalized)) =>
        call.metadata[1] = TRUE

\* the query passes validation and normalizes to the empty string
NormalizesToEmpty(q) == ~BlankQuery(q) /\ _normalize_search(q) = EmptyStr

\* C19: a query that is not blank but whose normalized form is empty (only hyphens
\* and underscores) matches every accumulated record: the returned items are the
\* projections of all collected records, one each and in order, none flagged, and
\* total_matches is the number of records fetched (from at most 10 pages); even a
\* record with no field at all, or a null title, matches.
C19_EmptyNormalizedMatchesAll ==
    /\ (Returned /\ NormalizesToEmpty(query)) =>
           /\ search_normalized = EmptyStr
           /\ meetings_calls \in 1..10
           /\ Len(Items) = Len(all_meetings)
           /\ result.fields.total_matches = PyInt(Len(all_meetings))
           /\ \A i \in 1..Len(all_meetings) : ItemOf(i, i) /\ ~HasFlag(Items[i])
    /\ pc = "start" =>
          \A m \in Pool \cup { MakeDict([title |-> Absent]), MakeDict([title |-> None]) } :
             _meeting_matches_search(m, EmptyStr) = <<TRUE, FALSE>>

\* C19 witness: the query "_" returns both of two collected records, one of which
\* holds the text "Labs" nowhere but in its title and the other nowhere at all.
C19_Witness ==
    /\ Returned
    /\ query = Str(<<"_">>)
    /\ Len(all_meetings) = 2
    /\ Len(Items) = 2
    /\ all_meetings[1] = mLabsTitle
    /\ all_meetings[2] = mSync

\* the items search_meetings returns for the same query and the same pages when
\* include_transcript is false: no transcript is fetched, the collected records
\* are matched on their metadata and projected
PlainMatched == MatchedFrom(collected, search_normalized, FALSE, 1)
PlainItems == FilteredMeetings(collected, PlainMatched)

\* the positions in all_meetings of the matched records, in the order of the items
Positions(matched) == [k \in 1..Len(matched) |-> matched[k][1]]

\* C20: transcript search only adds matches. With include_transcript = true the
\* items without a found_in_transcript flag are, in the same order, exactly the
\* items the same search returns with include_transcript = false, whether or not a
\* transcript fetch failed; every other item carries found_in_transcript = True.
C20_TranscriptOnlyAdds ==
    (Returned /\ include_transcript /\ ~OnlyWhitespace(query)) =>
        /\ Len(Items) = Len(matched_meetings)
        /\ SelectSeq(Items, LAMBDA item : ~HasFlag(item)) = PlainItems
        /\ Positions(SelectSeq(matched_meetings, LAMBDA m : ~m[2])) = Positions(PlainMatched)
        /\ \A k \in 1..Len(Items) :
              /\ HasFlag(Items[k]) <=> matched_meetings[k][2]
              /\ HasFlag(Items[k]) => Items[k].fields.found_in_transcript = TRUE

\* C20 witness: after a failed transcript fetch a search with include_transcript
\* returns an item the plain search returns too, followed by a flagged one.
C20_Witness ==
    /\ Returned
    /\ include_transcript
    /\ transcript_failed # {}
    /\ Len(PlainItems) = 1
    /\ Len(Items) = 2
    /\ ~HasFlag(Items[1])
    /\ HasFlag(Items[2])

\* the positions of the sequence are pairwise different
NoRepeat(s) == \A a, b \in 1..Len(s) : a # b => s[a] # s[b]

\* the record has no transcript, or an empty or null one, and has a recording_id
LacksTranscriptHasId(meeting) ==
    /\ \/ "transcript" \notin DOMAIN meeting.fields
       \/ meeting.fields.transcript \in { None, EmptyStr, List(<< >>) }
    /\ "recording_id" \in DOMAIN meeting.fields
    /\ meeting.fields.recording_id \notin { None, PyInt(0), EmptyStr }

\* the record without its transcript key
WithoutTranscript(meeting) ==
    [k \in DOMAIN meeting.fields \ {"transcript"} |-> meeting.fields[k]]

\* C16: without include_transcript no get_transcript call is ever issued; with it,
\* get_transcript is called only after the page fetches have ended, at most once
\* per record and in list order, only for records that lack a transcript and have a
\* recording_id, and by the time the records are matched exactly once for each of
\* those; a fetch changes nothing but the record's transcript key, and a record
\* not fetched for, or whose fetch failed, is left as collected.
C16_HydrationSelective ==
    /\ ~include_transcript => transcript_calls = << >>
    /\ transcript_calls # << >> =>
          /\ pc \in { "hydrate", "match", "returned" }
          /\ Len(all_meetings) = Len(collected)
    /\ NoRepeat(transcript_calls)
    /\ \A a, b \in 1..Len(transcript_calls) :
          a < b => transcript_calls[a] < transcript_calls[b]
    /\ \A a \in 1..Len(transcript_calls) :
          /\ transcript_calls[a] \in 1..Len(collected)
          /\ LacksTranscriptHasId(collected[transcript_calls[a]])
    /\ (include_transcript /\ pc \in { "match", "returned" } /\ exc = "none") =>
          Range(transcript_calls) =
             { i \in 1..Len(collected) : LacksTranscriptHasId(collected[i]) }
    /\ pc \in { "hydrate", "match", "returned" } =>
          /\ Len(all_meetings) = Len(collected)
          /\ \A i \in 1..Len(collected) :
                /\ WithoutTranscript(all_meetings[i]) = WithoutTranscript(collected[i])
                /\ (i \notin Range(transcript_calls) \/ i \in transcript_failed) =>
                      all_meetings[i] = collected[i]

\* C16 witness: the search returned after fetching a transcript for one record and
\* attaching it, and for no other: the second record came with a transcript.
C16_Witness ==
    /\ Returned
    /\ include_transcript
    /\ Len(collected) = 2
    /\ transcript_calls = <<1>>
    /\ all_meetings[1] # collected[1]
    /\ Truthy(Get(all_meetings[1], "transcript"))
    /\ Truthy(Get(collected[2], "transcript"))

\* the record at position i matches the query of this search
MatchesHere(i) ==
    \/ MetadataFieldMatch(all_meetings[i], search_normalized)
    \/ include_transcript /\ TranscriptMatches(all_meetings[i], search_normalized)

\* a page of records was received and appended, in its order, behind the records
\* of the earlier pages
PageAppended ==
    (/\ meetings_calls' = meetings_calls + 1
     /\ last_response'.kind = "dict"
     /\ Truthy(Get(last_response', "items"))) =>
        all_meetings' = all_meetings \o Get(last_response', "items").entries

\* C17: the returned items are a stable filter of the accumulated records. Every
\* page is appended in upstream order behind the earlier pages; the items are the
\* projections of the matching records in their order in the accumulated list, one
\* item for each matching record (equal records included) and none for the others.
C17_StableFilter ==
    /\ [][PageAppended]_vars
    /\ []((Returned /\ ~OnlyWhitespace(query)) =>
            /\ Len(Items) = Len(matched_meetings)
            /\ \A k \in 1..Len(Items) : ItemOf(k, matched_meetings[k][1])
            /\ \A a, b \in 1..Len(matched_meetings) :
                  a < b => matched_meetings[a][1] < matched_meetings[b][1]
            /\ { matched_meetings[k][1] : k \in 1..Len(matched_meetings) }
                  = { i \in 1..Len(all_meetings) : MatchesHere(i) }
            /\ result.fields.total_matches =
                  PyInt(Cardinality({ i \in 1..Len(all_meetings) : MatchesHere(i) })))

\* C17 witness: two matching records that came on two pages are returned in page
\* order.
C17_Witness ==
    /\ Returned
    /\ meetings_calls = 2
    /\ query = Str(Labs)
    /\ all_meetings = <<mNoId, mLabsTitle>>
    /\ Len(Items) = 2
    /\ Items[1].fields.title = Str(Sync)
    /\ Items[2].fields.title = Str(Labs)

\* the last page response named no records: items missing, null or empty
LastPageEmpty ==
    /\ last_response.kind = "dict"
    /\ \/ "items" \notin DOMAIN last_response.fields
       \/ last_response.fields.items \in { None, List(<< >>) }

\* C14: a page response with no items ends pagination at once, even when it names
\* a next cursor: no further get_meetings call is issued, the records of the earlier
\* pages are kept, and the search goes on to hydrate or match them.
C14_EmptyPageStops ==
    /\ [](LastPageEmpty =>
            /\ pc \in { "hydrate", "match", "returned" }
            /\ exc = "none"
            /\ Len(all_meetings) = Len(collected)
            /\ page = meetings_calls
            /\ Returned => (/\ Len(Items) = Len(matched_meetings)
                            /\ \A i \in 1..Len(all_meetings) :
                                  MetadataFieldMatch(all_meetings[i], search_normalized)
                                     => ReturnedAt(i)))
    /\ [][(LastPageEmpty /\ ~LastPageEmpty') => FALSE]_vars
    /\ [][LastPageEmpty => (/\ meetings_calls' = meetings_calls
                            /\ Len(all_meetings') = Len(all_meetings))]_vars

\* C14 witness: after one page with a record, a page without items but with a next
\* cursor was received as the second response, and the search returned the record
\* of the first page.
C14_Witness ==
    /\ Returned
    /\ LastPageEmpty
    /\ Truthy(Get(last_response, "cursor"))
    /\ meetings_calls = 2
    /\ Len(all_meetings) = 1
    /\ Len(Items) = 1

\* the last page response held records and named no next page: cursor missing,
\* null or empty
LastPageFinal ==
    /\ last_response.kind = "dict"
    /\ Truthy(Get(last_response, "items"))
    /\ \/ "cursor" \notin DOMAIN last_response.fields
       \/ last_response.fields.cursor \in { None, EmptyStr }

\* a get_meetings call is issued in this step
CallsGetMeetings == meetings_calls' = meetings_calls + 1

\* the call issued in this step carries the cursor of the response before it, or
\* no cursor when it is the first, and include_summary = true
CursorChained ==
    CallsGetMeetings =>
        IF meetings_calls = 0
        THEN last_params' = Dict([include_summary |-> TRUE])
        ELSE /\ last_response.kind = "dict"
             /\ "cursor" \in DOMAIN last_response.fields
             /\ last_response.fields.cursor \notin { None, EmptyStr }
             /\ last_params' = Dict([include_summary |-> TRUE,
                                     cursor |-> last_response.fields.cursor])

\* C15: the first get_meetings call carries no cursor, every later call carries the
\* cursor of the response just before it, every call carries include_summary =
\* true; after a response with records and an absent, null or empty cursor no
\* further page is fetched, and its records are the last of the accumulated list.
C15_CursorChaining ==
    /\ [][CursorChained]_vars
    /\ [][LastPageFinal => ~CallsGetMeetings /\ LastPageFinal']_vars
    /\ [](LastPageFinal =>
            /\ pc \in { "hydrate", "match", "returned" }
            /\ LET items == last_response.fields.items.entries
               IN /\ Len(collected) >= Len(items)
                  /\ SubSeq(collected, Len(collected) - Len(items) + 1, Len(collected))
                        = items
                  /\ Len(all_meetings) = Len(collected))
    /\ [](meetings_calls >= 1 => last_params.fields.include_summary = TRUE)

\* C15 witness: the second call carried the cursor of the first response, the
\* second response held a record and a null cursor, and the search went on with
\* two records.
C15_Witness ==
    /\ meetings_calls = 2
    /\ last_params = Dict([include_summary |-> TRUE, cursor |-> CursorAfter(1)])
    /\ LastPageFinal
    /\ Get(last_response, "cursor") = None
    /\ "cursor" \in DOMAIN last_response.fields
    /\ Len(collected) = 2
    /\ pc = "match"

\* the search was asked for through the registered tool and the tool has called
\* the core
ThroughTool == call.fn = "tool" /\ pc # "tool"

\* C12 as stated: the registered tool forwards the caller's include_transcript to
\* the core, so a caller asking for a transcript search gets a result with
\* searched_transcripts = true.
C12_ToolForwardsIncludeTranscript ==
    /\ ThroughTool => include_transcript = call.wants_transcript
    /\ (ThroughTool /\ Returned /\ ~OnlyWhitespace(query)) =>
          result.fields.searched_transcripts = call.wants_transcript

\* C12, amended: the registered tool takes a query only and always runs the core
\* with include_transcript = false, whatever the caller asks for: no transcript is
\* fetched, the result has searched_transcripts = false and no item is flagged
\* found_in_transcript; only a direct call of the core can search transcripts.
C12_ToolSearchesMetadataOnly ==
    /\ ThroughTool =>
          /\ include_transcript = FALSE
          /\ transcript_calls = << >>
          /\ pc # "hydrate"
          /\ (Returned /\ ~OnlyWhitespace(query)) =>
                /\ result.fields.searched_transcripts = FALSE
                /\ \A k \in 1..Len(Items) : ~HasFlag(Items[k])
                /\ \A i \in 1..Len(all_meetings) :
                      ReturnedAt(i) => MetadataFieldMatch(all_meetings[i], search_normalized)
    /\ (call.fn = "core" /\ pc # "start") => include_transcript = call.wants_transcript

\* C12 witness: a caller of the tool who asked for a transcript search is returned
\* a result that leaves out a record matching in its transcript only.
C12_Witness ==
    /\ ThroughTool
    /\ call.wants_transcript
    /\ Returned
    /\ ~OnlyWhitespace(query)
    /\ Items = << >>
    /\ \E i \in 1..Len(all_meetings) :
          /\ TranscriptMatches(all_meetings[i], search_normalized)
          /\ ~MetadataFieldMatch(all_meetings[i], search_normalized)

\* the frame search_meetings reaches when it runs alone from the frame f and is
\* given the answers rs in their order, as far as they take it
RECURSIVE RunAlone(_, _)
RunAlone(f, rs) ==
    IF f.pc \in { "returned", "raised" } THEN f
    ELSE IF f.pc = "start" THEN RunAlone(FrameValidate(f), rs)
    ELSE IF f.pc = "match" THEN RunAlone(FrameMatchAndRespond(f), rs)
    ELSE IF f.pc = "hydrate" /\ ~FrameAwaitsTranscript(f)
         THEN RunAlone(FrameHydrationDone(f), rs)
    ELSE IF rs = << >> THEN f
    ELSE IF f.pc = "fetch" THEN RunAlone(FrameGetMeetings(f, Head(rs)), Tail(rs))
    ELSE RunAlone(FrameGetTranscript(f, Head(rs)), Tail(rs))

\* invocation i alone, given the answers it has received so far
Alone(i) == RunAlone(Frame(frames[i].query, frames[i].include_transcript), received[i])

\* C13: interleaved invocations share no mutable state. At each page fetch an
\* invocation's record list, cursor and page counter are those it has when it runs
\* alone on the answers it was given, and when it ends it returns the result, or
\* raises the exception, of the run alone.
C13_InvocationsIndependent ==
    \A i \in DOMAIN frames :
       /\ frames[i].pc = "fetch" => Load(i) = Alone(i)
       /\ frames[i].pc \in { "returned", "raised" } =>
             /\ frames[i].result = Alone(i).result
             /\ frames[i].exc = Alone(i).exc
             /\ Load(i).all_meetings = Alone(i).all_meetings

\* C13 witness: two invocations were under way at once, each took a page and a
\* transcript while the other was suspended, and they returned different results.
C13_Witness ==
    /\ DOMAIN frames = Invocations
    /\ frames[1].pc = "returned"
    /\ frames[2].pc = "returned"
    /\ Len(received[1]) >= 2
    /\ Len(received[2]) >= 2
    /\ lists[1] # << >>
    /\ lists[2] # << >>
    /\ lists[1] # lists[2]
    /\ frames[1].result # frames[2].result
    /\ frames[1].include_transcript
    /\ frames[2].include_transcript

====
